---- MODULE Spec2Model ----
(***************************************************************************)
(* Password generator (model.py), its controller (controller.py) and its   *)
(* tkinter view (view.py).                                                 *)
(*                                                                         *)
(* Spec     : one call of PasswordGenerator.generate_password, statement   *)
(*            by statement, for every request and entropy stream.          *)
(* SpecMVC  : the controller and the view, one action per event handler.   *)
(***************************************************************************)
EXTENDS Integers, Sequences, FiniteSets, TLC

(***************************************************************************)
(* Bounds of the exploration.                                              *)
(***************************************************************************)
\* requested lengths range over MIN_LENGTH - LenBelow .. MAX_LENGTH + LenAbove
LenBelow == 9
LenAbove == 2
\* an entropy stream is a cycle of StreamLen raw values, each one of RawLevels levels
StreamLen == 2
RawLevels == 2
\* pending status-reset timers of the view
MaxTimers == 1

(***************************************************************************)
(* model.py: module constants.                                             *)
(***************************************************************************)
UPPERCASE == <<"A", "B", "C", "D", "E", "F", "G", "H", "I", "J", "K", "L", "M",
               "N", "O", "P", "Q", "R", "S", "T", "U", "V", "W", "X", "Y", "Z">>
LOWERCASE == <<"a", "b", "c", "d", "e", "f", "g", "h", "i", "j", "k", "l", "m",
               "n", "o", "p", "q", "r", "s", "t", "u", "v", "w", "x", "y", "z">>
DIGITS == <<"0", "1", "2", "3", "4", "5", "6", "7", "8", "9">>

\* variant of SYMBOLS with six more punctuation characters, 32 in all
SymbolsWider ==
    <<"!", "@", "#", "$", "%", "^", "&", "*", "(", ")", "_", "+", "-",
      "=", "[", "]", "{", "}", "|", ";", ":", ",", ".", "<", ">", "?",
      "/", "~", "'", "\"", "\\", " ">>

SYMBOLS == <<"!", "@", "#", "$", "%", "^", "&", "*", "(", ")", "_", "+", "-",
             "=", "[", "]", "{", "}", "|", ";", ":", ",", ".", "<", ">", "?">>

MIN_LENGTH == 8
MAX_LENGTH == 64

(***************************************************************************)
(* Strings are sequences of one-character strings.                         *)
(***************************************************************************)
Range(f) == {f[i] : i \in DOMAIN f}

\* Python's `needle in hay` on strings
Contains(hay, needle) ==
    \E i \in 0..(Len(hay) - Len(needle)) :
        SubSeq(hay, i + 1, i + Len(needle)) = needle

\* str(n) of a non-negative integer, as the f-string formats it
RECURSIVE IntToStr(_)
IntToStr(n) ==
    IF n < 10 THEN <<DIGITS[n + 1]>>
    ELSE IntToStr(n \div 10) \o <<DIGITS[(n % 10) + 1]>>

\* the two ValueError messages of _validate_settings
MsgNoCharType ==
    <<"A", "t", " ", "l", "e", "a", "s", "t", " ", "o", "n", "e", " ",
      "c", "h", "a", "r", "a", "c", "t", "e", "r", " ", "t", "y", "p", "e", " ",
      "m", "u", "s", "t", " ", "b", "e", " ",
      "s", "e", "l", "e", "c", "t", "e", "d", ".">>
MsgLength ==
    <<"P", "a", "s", "s", "w", "o", "r", "d", " ", "l", "e", "n", "g", "t", "h", " ",
      "m", "u", "s", "t", " ", "b", "e", " ", "b", "e", "t", "w", "e", "e", "n", " ">>
    \o IntToStr(MIN_LENGTH) \o <<" ", "a", "n", "d", " ">> \o IntToStr(MAX_LENGTH)
    \o <<" ", "c", "h", "a", "r", "a", "c", "t", "e", "r", "s", ".">>

(***************************************************************************)
(* PasswordSettings and the inputs explored.                               *)
(***************************************************************************)
Lengths == (MIN_LENGTH - LenBelow)..(MAX_LENGTH + LenAbove)

PasswordSettings ==
    [use_uppercase : BOOLEAN, use_lowercase : BOOLEAN,
     use_digits : BOOLEAN, use_symbols : BOOLEAN, length : Lengths]

\* PasswordSettings() with every argument defaulted
DefaultSettings ==
    [use_uppercase |-> TRUE, use_lowercase |-> TRUE,
     use_digits |-> TRUE, use_symbols |-> TRUE, length |-> 8]

(***************************************************************************)
(* The entropy source self._random (secrets.SystemRandom).  A stream is    *)
(* the cycle of raw values the operating system hands out; every draw      *)
(* consumes one position of it.                                            *)
(***************************************************************************)
Streams == [0..(StreamLen - 1) -> 0..(RawLevels - 1)]

\* _randbelow(n): an index in 0..n-1, raw level 0 the first and the top level the last
RandBelow(st, pos, n) == (st[pos % StreamLen] * (n - 1)) \div (RawLevels - 1)

\* self._random.choice(seq), seq non-empty
Choice(seq, st, pos) == seq[RandBelow(st, pos, Len(seq)) + 1]

\* variant of the exchange in shuffle that copies one way only
SwapOverwrite(x, a, b) == [x EXCEPT ![a] = x[b]]

Swap(x, a, b) == [x EXCEPT ![a] = x[b], ![b] = x[a]]

\* self._random.shuffle(x): for i in reversed(range(1, len(x))):
\*     j = randbelow(i + 1); x[i], x[j] = x[j], x[i]      (i, j 0-based)
\* (the test on Len(y) makes TLC evaluate y before it recurses)
RECURSIVE ShuffleFrom(_, _, _, _)
ShuffleFrom(x, i, st, pos) ==
    IF i < 1 THEN x
    ELSE LET j == RandBelow(st, pos, i + 1)
             y == Swap(x, i + 1, j + 1)
         IN  IF Len(y) = Len(x) THEN ShuffleFrom(y, i - 1, st, pos + 1) ELSE y

Shuffle(x, st, pos) == ShuffleFrom(x, Len(x) - 1, st, pos)

ShuffleDraws(x) == IF Len(x) > 1 THEN Len(x) - 1 ELSE 0

(***************************************************************************)
(* PasswordGenerator: the helpers of generate_password.                    *)
(***************************************************************************)
AnySelected(s) ==
    s.use_uppercase \/ s.use_lowercase \/ s.use_digits \/ s.use_symbols

\* variants of _validate_settings with a slip in it
ValidateSettingsStrict(s) ==
    IF ~AnySelected(s) THEN MsgNoCharType
    ELSE IF ~(MIN_LENGTH < s.length /\ s.length <= MAX_LENGTH) THEN MsgLength
    ELSE <<>>

ValidateSettingsLengthFirst(s) ==
    IF ~(MIN_LENGTH <= s.length /\ s.length <= MAX_LENGTH) THEN MsgLength
    ELSE IF ~AnySelected(s) THEN MsgNoCharType
    ELSE <<>>

ValidateSettingsNoClassCheck(s) ==
    IF ~(MIN_LENGTH <= s.length /\ s.length <= MAX_LENGTH) THEN MsgLength
    ELSE <<>>

\* _validate_settings: the message of the ValueError raised, <<>> when none is
ValidateSettings(s) ==
    IF ~AnySelected(s) THEN MsgNoCharType
    ELSE IF ~(MIN_LENGTH <= s.length /\ s.length <= MAX_LENGTH) THEN MsgLength
    ELSE <<>>

\* variant of _get_guaranteed_characters that handles the symbols first
GetGuaranteedCharactersSymbolsFirst(s, st, pos) ==
    LET g1 == IF s.use_symbols THEN <<Choice(SYMBOLS, st, pos)>> ELSE <<>>
        g2 == g1 \o (IF s.use_uppercase
                     THEN <<Choice(UPPERCASE, st, pos + Len(g1))>> ELSE <<>>)
        g3 == g2 \o (IF s.use_lowercase
                     THEN <<Choice(LOWERCASE, st, pos + Len(g2))>> ELSE <<>>)
        g4 == g3 \o (IF s.use_digits
                     THEN <<Choice(DIGITS, st, pos + Len(g3))>> ELSE <<>>)
    IN  g4

\* variant of _get_guaranteed_characters that forgets the symbols
GetGuaranteedCharactersNoSymbols(s, st, pos) ==
    LET g1 == IF s.use_uppercase THEN <<Choice(UPPERCASE, st, pos)>> ELSE <<>>
        g2 == g1 \o (IF s.use_lowercase
                     THEN <<Choice(LOWERCASE, st, pos + Len(g1))>> ELSE <<>>)
        g3 == g2 \o (IF s.use_digits
                     THEN <<Choice(DIGITS, st, pos + Len(g2))>> ELSE <<>>)
    IN  g3

\* _get_guaranteed_characters: one draw per selected class, in the order of the ifs
GetGuaranteedCharacters(s, st, pos) ==
    LET g1 == IF s.use_uppercase THEN <<Choice(UPPERCASE, st, pos)>> ELSE <<>>
        g2 == g1 \o (IF s.use_lowercase
                     THEN <<Choice(LOWERCASE, st, pos + Len(g1))>> ELSE <<>>)
        g3 == g2 \o (IF s.use_digits
                     THEN <<Choice(DIGITS, st, pos + Len(g2))>> ELSE <<>>)
        g4 == g3 \o (IF s.use_symbols
                     THEN <<Choice(SYMBOLS, st, pos + Len(g3))>> ELSE <<>>)
    IN  g4

\* variant of _build_character_pool that appends the digits ahead of the letters
BuildCharacterPoolDigitsFirst(s) ==
    (IF s.use_digits THEN DIGITS ELSE <<>>)
    \o (IF s.use_uppercase THEN UPPERCASE ELSE <<>>)
    \o (IF s.use_lowercase THEN LOWERCASE ELSE <<>>)
    \o (IF s.use_symbols THEN SYMBOLS ELSE <<>>)

\* variant of _build_character_pool that ignores the flags
BuildCharacterPoolAll(s) == UPPERCASE \o LOWERCASE \o DIGITS \o SYMBOLS

\* _build_character_pool
BuildCharacterPool(s) ==
    (IF s.use_uppercase THEN UPPERCASE ELSE <<>>)
    \o (IF s.use_lowercase THEN LOWERCASE ELSE <<>>)
    \o (IF s.use_digits THEN DIGITS ELSE <<>>)
    \o (IF s.use_symbols THEN SYMBOLS ELSE <<>>)

\* range(n) has no element when n <= 0
RangeLen(n) == IF n > 0 THEN n ELSE 0

\* variant of the fill that draws one character too few
RandomCharsShort(pool, n, st, pos) ==
    [k \in 1..RangeLen(n - 1) |-> pool[RandBelow(st, pos + k - 1, Len(pool)) + 1]]

\* [self._random.choice(all_chars) for _ in range(remaining_length)]
RandomChars(pool, n, st, pos) ==
    [k \in 1..RangeLen(n) |-> Choice(pool, st, pos + k - 1)]

\* choice raises IndexError on an empty sequence
FillRaises(pool, n) == RangeLen(n) > 0 /\ Len(pool) = 0

(***************************************************************************)
(* State.                                                                  *)
(***************************************************************************)
VARIABLES
    \* one call of generate_password
    pc,                \* position in generate_password
    settings,          \* the argument
    stream,            \* what the entropy source yields during the call
    drawn,             \* draws taken from the entropy source so far
    guaranteed_chars, remaining_length, all_chars, random_chars, password_chars,
    result,            \* the string returned
    exc,               \* the exception raised: "none", "ValueError", "IndexError"
    exc_msg,           \* str(e)
    stages,            \* the stages entered so far, in order
    \* the view
    uppercase_var, lowercase_var, digits_var, symbols_var, length_var,
    current_password, password_visible, entry_show, status_var, timers,
    \* the handler that ran last and the view methods it called
    handler, view_calls

coreVars == <<pc, settings, stream, drawn, guaranteed_chars, remaining_length,
              all_chars, random_chars, password_chars, result, exc, exc_msg,
              stages>>
viewVars == <<uppercase_var, lowercase_var, digits_var, symbols_var, length_var,
              current_password, password_visible, entry_show, status_var, timers,
              handler, view_calls>>
vars == <<coreVars, viewVars>>

\* PasswordGeneratorView.__init__ and setup_ui, then set_callbacks
InitView ==
    /\ uppercase_var = TRUE
    /\ lowercase_var = TRUE
    /\ digits_var = TRUE
    /\ symbols_var = TRUE
    /\ length_var = 8
    /\ current_password = <<>>
    /\ password_visible = FALSE
    /\ entry_show = ""
    /\ status_var = <<"ready">>
    /\ timers = 0
    /\ handler = "none"
    /\ view_calls = <<>>

\* no call of generate_password in progress
InitCore ==
    /\ pc = "idle"
    /\ settings = DefaultSettings
    /\ stream = [i \in 0..(StreamLen - 1) |-> 0]
    /\ drawn = 0
    /\ guaranteed_chars = <<>>
    /\ remaining_length = 0
    /\ all_chars = <<>>
    /\ random_chars = <<>>
    /\ password_chars = <<>>
    /\ result = <<>>
    /\ exc = "none"
    /\ exc_msg = <<>>
    /\ stages = <<>>

Init == InitCore /\ InitView

(***************************************************************************)
(* generate_password, statement by statement.                              *)
(***************************************************************************)
\* a caller invokes generate_password(settings); the locals of the call are fresh
Call ==
    /\ pc = "idle"
    /\ \E s \in PasswordSettings, st \in Streams :
          /\ settings' = s
          /\ stream' = st
    /\ pc' = "validate"
    /\ drawn' = 0
    /\ guaranteed_chars' = <<>>
    /\ remaining_length' = 0
    /\ all_chars' = <<>>
    /\ random_chars' = <<>>
    /\ password_chars' = <<>>
    /\ result' = <<>>
    /\ exc' = "none"
    /\ exc_msg' = <<>>
    /\ stages' = <<>>
    /\ UNCHANGED viewVars

\* variant of generate_password that goes from validation straight to the pool
ValidateThenPool ==
    /\ pc = "validate"
    /\ stages' = Append(stages, "validate")
    /\ LET m == ValidateSettings(settings)
       IN  IF m # <<>>
           THEN /\ exc' = "ValueError"
                /\ exc_msg' = m
                /\ pc' = "raised"
           ELSE /\ pc' = "pool"
                /\ UNCHANGED <<exc, exc_msg>>
    /\ UNCHANGED <<settings, stream, drawn, guaranteed_chars, remaining_length,
                   all_chars, random_chars, password_chars, result>>
    /\ UNCHANGED viewVars

\* variant of generate_password that draws the guaranteed characters before validating
ValidateLate ==
    /\ pc = "validate"
    /\ stages' = Append(stages, "validate")
    /\ guaranteed_chars' = GetGuaranteedCharacters(settings, stream, drawn)
    /\ drawn' = drawn + Len(guaranteed_chars')
    /\ LET m == ValidateSettings(settings)
       IN  IF m # <<>>
           THEN /\ exc' = "ValueError"
                /\ exc_msg' = m
                /\ pc' = "raised"
           ELSE /\ pc' = "guaranteed"
                /\ UNCHANGED <<exc, exc_msg>>
    /\ UNCHANGED <<settings, stream, remaining_length,
                   all_chars, random_chars, password_chars, result>>
    /\ UNCHANGED viewVars

\* line 74: self._validate_settings(settings)
Validate ==
    /\ pc = "validate"
    /\ stages' = Append(stages, "validate")
    /\ LET m == ValidateSettings(settings)
       IN  IF m # <<>>
           THEN /\ exc' = "ValueError"
                /\ exc_msg' = m
                /\ pc' = "raised"
           ELSE /\ pc' = "guaranteed"
                /\ UNCHANGED <<exc, exc_msg>>
    /\ UNCHANGED <<settings, stream, drawn, guaranteed_chars, remaining_length,
                   all_chars, random_chars, password_chars, result>>
    /\ UNCHANGED viewVars

\* line 77: guaranteed_chars = self._get_guaranteed_characters(settings)
GetGuaranteed ==
    /\ pc = "guaranteed"
    /\ stages' = Append(stages, "guaranteed")
    /\ guaranteed_chars' = GetGuaranteedCharacters(settings, stream, drawn)
    /\ drawn' = drawn + Len(guaranteed_chars')
    /\ pc' = "pool"
    /\ UNCHANGED <<settings, stream, remaining_length, all_chars, random_chars,
                   password_chars, result, exc, exc_msg>>
    /\ UNCHANGED viewVars

\* lines 80-81: remaining_length = ...; all_chars = self._build_character_pool(settings)
BuildPool ==
    /\ pc = "pool"
    /\ stages' = Append(stages, "pool")
    /\ remaining_length' = settings.length - Len(guaranteed_chars)
    /\ all_chars' = BuildCharacterPool(settings)
    /\ pc' = "fill"
    /\ UNCHANGED <<settings, stream, drawn, guaranteed_chars, random_chars,
                   password_chars, result, exc, exc_msg>>
    /\ UNCHANGED viewVars

\* lines 82-83: random_chars = [choice(all_chars) for _ in range(remaining_length)]
Fill ==
    /\ pc = "fill"
    /\ stages' = Append(stages, "fill")
    /\ IF FillRaises(all_chars, remaining_length)
       THEN /\ exc' = "IndexError"
            /\ pc' = "raised"
            /\ UNCHANGED <<random_chars, drawn, exc_msg>>
       ELSE /\ random_chars' = RandomChars(all_chars, remaining_length, stream, drawn)
            /\ drawn' = drawn + Len(random_chars')
            /\ pc' = "shuffle"
            /\ UNCHANGED <<exc, exc_msg>>
    /\ UNCHANGED <<settings, stream, guaranteed_chars, remaining_length, all_chars,
                   password_chars, result>>
    /\ UNCHANGED viewVars

\* lines 86-87: password_chars = guaranteed_chars + random_chars; shuffle(password_chars)
ShuffleChars ==
    /\ pc = "shuffle"
    /\ stages' = Append(stages, "shuffle")
    /\ password_chars' = Shuffle(guaranteed_chars \o random_chars, stream, drawn)
    /\ drawn' = drawn + ShuffleDraws(guaranteed_chars \o random_chars)
    /\ pc' = "join"
    /\ UNCHANGED <<settings, stream, guaranteed_chars, remaining_length, all_chars,
                   random_chars, result, exc, exc_msg>>
    /\ UNCHANGED viewVars

\* line 89: return ''.join(password_chars)
Return ==
    /\ pc = "join"
    /\ result' = password_chars
    /\ pc' = "done"
    /\ UNCHANGED <<settings, stream, drawn, guaranteed_chars, remaining_length,
                   all_chars, random_chars, password_chars, exc, exc_msg, stages>>
    /\ UNCHANGED viewVars

\* the call has returned or raised: its frame is gone and the generator is idle again
Discard ==
    /\ pc \in {"done", "raised"}
    /\ pc' = "idle"
    /\ settings' = DefaultSettings
    /\ drawn' = 0
    /\ guaranteed_chars' = <<>>
    /\ remaining_length' = 0
    /\ all_chars' = <<>>
    /\ random_chars' = <<>>
    /\ password_chars' = <<>>
    /\ result' = <<>>
    /\ exc' = "none"
    /\ exc_msg' = <<>>
    /\ stages' = <<>>
    /\ stream' = [i \in 0..(StreamLen - 1) |-> 0]
    /\ UNCHANGED viewVars

Next ==
    \/ Call \/ Validate \/ GetGuaranteed \/ BuildPool \/ Fill \/ ShuffleChars
    \/ Return \/ Discard

Spec == Init /\ [][Next]_vars

(***************************************************************************)
(* Properties of generate_password (checked under Spec).                   *)
(***************************************************************************)
\* a valid request: at least one of the four classes and 8 <= length <= 64
ValidRequest(s) ==
    /\ s.use_uppercase \/ s.use_lowercase \/ s.use_digits \/ s.use_symbols
    /\ 8 <= s.length
    /\ s.length <= 64

NoClassSelected(s) ==
    ~s.use_uppercase /\ ~s.use_lowercase /\ ~s.use_digits /\ ~s.use_symbols

\* the classes a request selects, each with its character set
SelectedSets(s) ==
    (IF s.use_uppercase THEN {Range(UPPERCASE)} ELSE {})
    \cup (IF s.use_lowercase THEN {Range(LOWERCASE)} ELSE {})
    \cup (IF s.use_digits THEN {Range(DIGITS)} ELSE {})
    \cup (IF s.use_symbols THEN {Range(SYMBOLS)} ELSE {})

Returned == pc = "done"

\* C1: for every valid request the string returned by generate_password has
\* exactly the requested length.
C1_LengthInvariant ==
    (Returned /\ ValidRequest(settings)) => Len(result) = settings.length

C1_Witness ==
    /\ Returned
    /\ ValidRequest(settings)
    /\ settings.length = 64
    /\ Len(result) = 64
    /\ Len(guaranteed_chars) = 4

\* C2: for every valid request and every selected class, the returned password
\* contains at least one character of that class's character set.
C2_ClassCoverage ==
    (Returned /\ ValidRequest(settings)) =>
        \A set \in SelectedSets(settings) : Range(result) \cap set # {}

\* all four classes selected, the shortest length, and every draw of the fill
\* takes the first character of the pool
C2_Witness ==
    /\ Returned
    /\ Cardinality(SelectedSets(settings)) = 4
    /\ settings.length = 8
    /\ Range(random_chars) = {"A"}
    /\ Range(result) \cap Range(SYMBOLS) # {}

\* C3: for every valid request every character of the returned password
\* belongs to the character set of a selected class.
C3_ClassExclusivity ==
    (Returned /\ ValidRequest(settings)) =>
        Range(result) \subseteq UNION SelectedSets(settings)

\* digits only: a password of digits, some of them the last digit
C3_Witness ==
    /\ Returned
    /\ settings.use_digits
    /\ Cardinality(SelectedSets(settings)) = 1
    /\ "9" \in Range(result)
    /\ Range(result) \subseteq Range(DIGITS)

\* C4: with at least one class selected, a call succeeds for every length in
\* 8..64 and fails with the length error for every length below 8 or above 64;
\* an out-of-range length never yields a password, not even a clamped one.
C4_LengthBoundaries ==
    (~NoClassSelected(settings)) =>
        IF 8 <= settings.length /\ settings.length <= 64
        THEN /\ exc = "none"
             /\ pc # "raised"
        ELSE /\ pc \in {"validate", "raised"}
             /\ guaranteed_chars = <<>> /\ random_chars = <<>>
             /\ password_chars = <<>> /\ result = <<>>
             /\ pc = "raised" => (exc = "ValueError" /\ exc_msg = MsgLength)

C4_Witness ==
    /\ pc = "raised"
    /\ ~NoClassSelected(settings)
    /\ settings.length = 65
    /\ exc_msg = MsgLength

\* C4, the accepting side: both boundary lengths are returned as passwords
C4_WitnessAccepted ==
    /\ Returned
    /\ settings.length = 8
    /\ Len(result) = 8

\* C5: with no class selected the call fails with the no-character-type error
\* for every length, in range or not.
C5_EmptySelection ==
    NoClassSelected(settings) =>
        /\ pc \in {"validate", "raised"}
        /\ result = <<>>
        /\ pc = "raised" => (exc = "ValueError" /\ exc_msg = MsgNoCharType)

\* no class selected and the length out of range as well
C5_Witness ==
    /\ pc = "raised"
    /\ NoClassSelected(settings)
    /\ settings.length = 7
    /\ exc_msg = MsgNoCharType

\* C6: validation runs before any draw; on an invalid request the error is
\* raised with no draw taken from the entropy source and no password, whole or
\* partial, produced.
C6_ValidationBeforeDraws ==
    /\ pc = "validate" => drawn = 0
    /\ (stages # <<>>) => stages[1] = "validate"
    /\ (~ValidRequest(settings)) =>
          /\ drawn = 0
          /\ guaranteed_chars = <<>> /\ random_chars = <<>>
          /\ password_chars = <<>> /\ result = <<>>
          /\ pc \in {"validate", "raised"}

C6_Witness ==
    /\ pc = "raised"
    /\ exc = "ValueError"
    /\ ~ValidRequest(settings)
    /\ stages = <<"validate">>
    /\ drawn = 0

\* C7: validation is the only stage that can fail.  Once a request has passed
\* validation the pool is non-empty, the fill count is not negative, no
\* exception is raised and the call ends returning a password.
C7_OnlyValidationFails ==
    /\ exc # "none" => (exc = "ValueError" /\ stages = <<"validate">>)
    /\ pc \in {"fill", "shuffle", "join", "done"} =>
          (Len(all_chars) > 0 /\ remaining_length >= 0)
    /\ pc = "raised" => exc = "ValueError"
    /\ Returned => (exc = "none" /\ Len(result) > 0)

\* a request that passed validation has gone through every stage and returned
C7_Witness ==
    /\ Returned
    /\ stages = <<"validate", "guaranteed", "pool", "fill", "shuffle">>
    /\ remaining_length = 4
    /\ drawn = 15


IsPrefix(a, b) == Len(a) <= Len(b) /\ SubSeq(b, 1, Len(a)) = a

\* C11 as stated: the stages run in the order validator, pool builder,
\* guaranteed-character selector, fill and shuffle; the pool exists before a
\* guaranteed character is drawn.
C11_OrderAsStated ==
    /\ IsPrefix(stages, <<"validate", "pool", "guaranteed", "fill", "shuffle">>)
    /\ guaranteed_chars # <<>> => all_chars # <<>>

\* C11 (amended): the stages run in the order validator, guaranteed-character
\* selector, pool builder, fill, shuffle: the guaranteed characters are drawn
\* before the pool is built, and the pool is built before any fill character
\* is drawn.
C11_StageOrder ==
    /\ IsPrefix(stages, <<"validate", "guaranteed", "pool", "fill", "shuffle">>)
    /\ all_chars # <<>> => guaranteed_chars # <<>>
    /\ random_chars # <<>> => (all_chars # <<>> /\ guaranteed_chars # <<>>)
    /\ pc \in {"pool", "fill"} => drawn = Len(guaranteed_chars)

\* the guaranteed characters are drawn and the pool is not built yet
C11_Witness ==
    /\ pc = "pool"
    /\ stages = <<"validate", "guaranteed">>
    /\ Len(guaranteed_chars) = 4
    /\ drawn = 4
    /\ all_chars = <<>>

PoolBuilt == pc \in {"fill", "shuffle", "join", "done"}

\* the length a class contributes to the pool of request s
SizeIf(flag, class) == IF flag THEN Len(class) ELSE 0

\* C12: for every non-empty selection the pool is the selected classes'
\* character sets one after the other in the order uppercase, lowercase,
\* digits, symbols; it holds no character twice and its size is the sum of
\* the sizes of the selected classes.
C12_PoolIsOrderedConcatenation ==
    PoolBuilt =>
        LET s == settings
            u == SizeIf(s.use_uppercase, UPPERCASE)
            l == u + SizeIf(s.use_lowercase, LOWERCASE)
            d == l + SizeIf(s.use_digits, DIGITS)
            y == d + SizeIf(s.use_symbols, SYMBOLS)
        IN  /\ Len(all_chars) = y
            /\ s.use_uppercase => SubSeq(all_chars, 1, u) = UPPERCASE
            /\ s.use_lowercase => SubSeq(all_chars, u + 1, l) = LOWERCASE
            /\ s.use_digits => SubSeq(all_chars, l + 1, d) = DIGITS
            /\ s.use_symbols => SubSeq(all_chars, d + 1, y) = SYMBOLS
            /\ Cardinality(Range(all_chars)) = Len(all_chars)

\* lowercase and digits selected: 36 characters, "a" first and "9" last
C12_Witness ==
    /\ PoolBuilt
    /\ ~settings.use_uppercase /\ settings.use_lowercase
    /\ settings.use_digits /\ ~settings.use_symbols
    /\ Len(all_chars) = 36
    /\ all_chars[1] = "a"
    /\ all_chars[36] = "9"

\* the pool size of request s when the four classes have sizes u, l, d, y
PoolSize(s, u, l, d, y) ==
    (IF s.use_uppercase THEN u ELSE 0) + (IF s.use_lowercase THEN l ELSE 0)
    + (IF s.use_digits THEN d ELSE 0) + (IF s.use_symbols THEN y ELSE 0)

\* C13 as stated: the classes have 26, 26, 10 and 32 characters, so that the
\* pool of all four classes has 94.
C13_SizesAsStated ==
    PoolBuilt => Len(all_chars) = PoolSize(settings, 26, 26, 10, 32)

\* C13 (amended): the classes have 26, 26, 10 and 26 distinct characters; the
\* pool of all four classes has 88.
C13_ClassSizes ==
    /\ Cardinality(Range(UPPERCASE)) = 26
    /\ Cardinality(Range(LOWERCASE)) = 26
    /\ Cardinality(Range(DIGITS)) = 10
    /\ Cardinality(Range(SYMBOLS)) = 26
    /\ PoolBuilt => Len(all_chars) = PoolSize(settings, 26, 26, 10, 26)
    /\ (PoolBuilt /\ Cardinality(SelectedSets(settings)) = 4) => Len(all_chars) = 88

\* the pool of all four classes, 88 characters, the last one a symbol
C13_Witness ==
    /\ PoolBuilt
    /\ Cardinality(SelectedSets(settings)) = 4
    /\ Len(all_chars) = 88
    /\ all_chars[88] = "?"

GuaranteedDrawn == pc \in {"pool", "fill", "shuffle", "join", "done"}

\* the character sets of the classes request s selects, in the order
\* uppercase, lowercase, digits, symbols
SelectedInOrder(s) ==
    (IF s.use_uppercase THEN <<Range(UPPERCASE)>> ELSE <<>>)
    \o (IF s.use_lowercase THEN <<Range(LOWERCASE)>> ELSE <<>>)
    \o (IF s.use_digits THEN <<Range(DIGITS)>> ELSE <<>>)
    \o (IF s.use_symbols THEN <<Range(SYMBOLS)>> ELSE <<>>)

\* C14: _get_guaranteed_characters returns as many characters as classes are
\* selected (1 to 4 after validation), the k-th one a character of the k-th
\* selected class in the order uppercase, lowercase, digits, symbols, and no
\* character of a class that is not selected.
C14_OneGuaranteedPerClass ==
    GuaranteedDrawn =>
        LET classes == SelectedInOrder(settings)
        IN  /\ Len(guaranteed_chars) = Len(classes)
            /\ Len(guaranteed_chars) \in 1..4
            /\ \A k \in 1..Len(classes) : guaranteed_chars[k] \in classes[k]
            /\ Range(guaranteed_chars) \subseteq UNION SelectedSets(settings)
            /\ drawn >= Len(guaranteed_chars)

\* lowercase and symbols selected: a lowercase letter, then a symbol
C14_Witness ==
    /\ pc = "pool"
    /\ ~settings.use_uppercase /\ settings.use_lowercase
    /\ ~settings.use_digits /\ settings.use_symbols
    /\ guaranteed_chars = <<"z", "?">>
    /\ drawn = 2

\* how often character c occurs in x
Count(x, c) == Cardinality({i \in DOMAIN x : x[i] = c})

\* x and y hold the same characters the same number of times
SameMultiset(x, y) ==
    /\ Len(x) = Len(y)
    /\ \A c \in Range(x) \cup Range(y) : Count(x, c) = Count(y, c)

\* C15: for every valid request the fill draws exactly
\* remaining = length - (number of guaranteed characters) >= 0 characters, each
\* of them from the pool, and the password returned is a permutation of
\* guaranteed + fill: the shuffle adds, removes and replaces nothing.
C15_FillAndPermutation ==
    /\ pc \in {"shuffle", "join", "done"} =>
          /\ remaining_length = settings.length - Len(guaranteed_chars)
          /\ remaining_length >= 0
          /\ Len(random_chars) = remaining_length
          /\ Range(random_chars) \subseteq Range(all_chars)
    /\ pc = "shuffle" => drawn = Len(guaranteed_chars) + remaining_length
    /\ pc \in {"join", "done"} =>
          SameMultiset(password_chars, guaranteed_chars \o random_chars)
    /\ Returned => SameMultiset(result, guaranteed_chars \o random_chars)

\* the longest password of all four classes: 60 fill characters, and the
\* shuffle has moved some character
C15_Witness ==
    /\ Returned
    /\ settings.length = 64
    /\ Len(guaranteed_chars) = 4
    /\ remaining_length = 60
    /\ Len(random_chars) = 60
    /\ result # guaranteed_chars \o random_chars

(***************************************************************************)
(* generate_password as one call: what a caller observes.                  *)
(***************************************************************************)
GeneratePassword(s, st) ==
    LET m == ValidateSettings(s)
    IN  IF m # <<>>
        THEN [exc |-> "ValueError", msg |-> m, password |-> <<>>, drawn |-> 0]
        ELSE LET g == GetGuaranteedCharacters(s, st, 0)
                 rem == s.length - Len(g)
                 pool == BuildCharacterPool(s)
             IN  IF FillRaises(pool, rem)
                 THEN [exc |-> "IndexError", msg |-> <<"IndexError">>,
                       password |-> <<>>, drawn |-> Len(g)]
                 ELSE LET r == RandomChars(pool, rem, st, Len(g))
                          x == g \o r
                      IN  [exc |-> "none", msg |-> <<>>,
                           password |-> Shuffle(x, st, Len(x)),
                           drawn |-> Len(x) + ShuffleDraws(x)]

(***************************************************************************)
(* copy_to_clipboard.  The tkinter calls inside its try block are          *)
(* 1 import, 2 Tk(), 3 withdraw, 4 clipboard_clear, 5 clipboard_append,    *)
(* 6 update, 7 destroy; failAt is the one that raises, 0 when none does.   *)
(***************************************************************************)
ClipboardSteps == 7

\* variant of copy_to_clipboard with the import outside the try block
CaughtStepsAfterImport == 2..ClipboardSteps

\* `except Exception` covers every step of the try block
CaughtSteps == 1..ClipboardSteps

CopyToClipboard(failAt) ==
    IF failAt = 0 THEN [raised |-> FALSE, ret |-> TRUE]
    ELSE IF failAt \in CaughtSteps THEN [raised |-> FALSE, ret |-> FALSE]
    ELSE [raised |-> TRUE, ret |-> FALSE]

(***************************************************************************)
(* Texts shown to the user.  A text is a sequence of fragments; the        *)
(* Japanese literals of controller.py and view.py are one fragment each,   *)
(* written here as an English gloss.                                       *)
(***************************************************************************)
TextSelectCharType == <<"select at least one character type">>
TextLengthRange == <<"length must be between 8 and 64">>
TextGenerateFailed == <<"error while generating the password: ">>
TextCopied == <<"password copied to the clipboard">>
TextCopyFailed == <<"copying to the clipboard failed">>
TextCopyError == <<"error while copying: ">>
TextNothingToCopy == <<"there is no password to copy">>
TextReady == <<"ready">>
TextError == <<"an error occurred">>

\* f"パスワード生成完了 ({len(password)}文字)"
TextGenerated(password) ==
    <<"password generated (">> \o IntToStr(Len(password)) \o <<" characters)">>

NeedleCharType == <<"c", "h", "a", "r", "a", "c", "t", "e", "r", " ", "t", "y", "p", "e">>
NeedleLength == <<"l", "e", "n", "g", "t", "h">>

\* variant of on_generate that looks for "character" alone
ErrorTextOfLoose(msg) ==
    IF Contains(msg, SubSeq(NeedleCharType, 1, 9)) THEN TextSelectCharType
    ELSE IF Contains(msg, NeedleLength) THEN TextLengthRange
    ELSE msg

\* controller.on_generate, except ValueError: the text chosen from str(e)
ErrorTextOf(msg) ==
    IF Contains(msg, NeedleCharType) THEN TextSelectCharType
    ELSE IF Contains(msg, NeedleLength) THEN TextLengthRange
    ELSE msg

(***************************************************************************)
(* The view (view.py) and the controller (controller.py).                  *)
(***************************************************************************)
\* the entropy streams explored behind the view: one raw value repeated
ViewStreams == {st \in Streams : \A i \in DOMAIN st : st[i] = st[0]}

\* what the user can put into the length spinbox
ViewLengths == {MIN_LENGTH - 1, MIN_LENGTH, MAX_LENGTH + 1}

\* view.get_settings, as on_generate turns it into a PasswordSettings
GetSettings ==
    [use_uppercase |-> uppercase_var, use_lowercase |-> lowercase_var,
     use_digits |-> digits_var, use_symbols |-> symbols_var, length |-> length_var]

ViewCall(method, arg) == [method |-> method, arg |-> arg]

\* view.display_password(password), called from handler h
DisplayPassword(h, password, visible) ==
    /\ current_password' = password
    /\ entry_show' = IF visible THEN "" ELSE "*"
    /\ status_var' = TextGenerated(password)
    /\ handler' = h
    /\ view_calls' = <<ViewCall("display_password", password)>>

\* view.show_error(message), called from handler h
ShowError(h, message) ==
    /\ status_var' = TextError
    /\ handler' = h
    /\ view_calls' = <<ViewCall("show_error", message)>>

\* view.show_success(message), called from handler h
ShowSuccess(h, message) ==
    /\ status_var' = message
    /\ timers' = timers + 1
    /\ handler' = h
    /\ view_calls' = <<ViewCall("show_success", message)>>

\* variant of on_generate that blanks the displayed password on an error
OnGenerateClearing(r) ==
    IF r.exc = "none"
    THEN /\ DisplayPassword("on_generate", r.password, password_visible)
         /\ UNCHANGED <<password_visible, timers>>
    ELSE /\ ShowError("on_generate", ErrorTextOf(r.msg))
         /\ current_password' = <<>>
         /\ UNCHANGED <<password_visible, entry_show, timers>>

\* controller.on_generate with the outcome r of generate_password
OnGenerate(r) ==
    IF r.exc = "none"
    THEN /\ DisplayPassword("on_generate", r.password, password_visible)
         /\ UNCHANGED <<password_visible, timers>>
    ELSE IF r.exc = "ValueError"
    THEN /\ ShowError("on_generate", ErrorTextOf(r.msg))
         /\ UNCHANGED <<current_password, password_visible, entry_show, timers>>
    ELSE /\ ShowError("on_generate", TextGenerateFailed \o r.msg)
         /\ UNCHANGED <<current_password, password_visible, entry_show, timers>>

\* controller.on_copy(password) with the outcome c of copy_to_clipboard
OnCopy(c) ==
    IF c.raised
    THEN /\ ShowError("on_copy", TextCopyError)
         /\ UNCHANGED <<current_password, password_visible, entry_show, timers>>
    ELSE IF c.ret
    THEN /\ timers < MaxTimers
         /\ ShowSuccess("on_copy", TextCopied)
         /\ UNCHANGED <<current_password, password_visible, entry_show>>
    ELSE /\ ShowError("on_copy", TextCopyFailed)
         /\ UNCHANGED <<current_password, password_visible, entry_show, timers>>

\* view._on_generate_clicked: the generate and regenerate buttons
OnGenerateClicked ==
    /\ \E st \in ViewStreams : OnGenerate(GeneratePassword(GetSettings, st))
    /\ UNCHANGED <<uppercase_var, lowercase_var, digits_var, symbols_var, length_var>>
    /\ UNCHANGED coreVars

\* view._on_copy_clicked: the copy button
OnCopyClicked ==
    /\ IF current_password = <<>>
       THEN /\ ShowError("on_copy_clicked", TextNothingToCopy)
            /\ UNCHANGED <<current_password, password_visible, entry_show, timers>>
       ELSE \E failAt \in 0..ClipboardSteps : OnCopy(CopyToClipboard(failAt))
    /\ UNCHANGED <<uppercase_var, lowercase_var, digits_var, symbols_var, length_var>>
    /\ UNCHANGED coreVars

\* variant of _on_toggle_visibility without the test for an empty password
OnToggleVisibilityUnguarded ==
    /\ password_visible' = ~password_visible
    /\ DisplayPassword("on_toggle_visibility", current_password, ~password_visible)
    /\ UNCHANGED <<uppercase_var, lowercase_var, digits_var, symbols_var, length_var,
                   timers>>
    /\ UNCHANGED coreVars

\* view._on_toggle_visibility: the show/hide button
OnToggleVisibility ==
    /\ IF current_password = <<>>
       THEN /\ handler' = "on_toggle_visibility"
            /\ view_calls' = <<>>
            /\ UNCHANGED <<current_password, password_visible, entry_show, status_var>>
       ELSE /\ password_visible' = ~password_visible
            /\ DisplayPassword("on_toggle_visibility", current_password,
                               ~password_visible)
    /\ UNCHANGED <<uppercase_var, lowercase_var, digits_var, symbols_var, length_var,
                   timers>>
    /\ UNCHANGED coreVars

\* show_success: self.root.after(3000, lambda: self.status_var.set("準備完了"))
StatusReset ==
    /\ timers > 0
    /\ timers' = timers - 1
    /\ status_var' = TextReady
    /\ handler' = "after"
    /\ view_calls' = <<>>
    /\ UNCHANGED <<uppercase_var, lowercase_var, digits_var, symbols_var, length_var,
                   current_password, password_visible, entry_show>>
    /\ UNCHANGED coreVars

\* the user edits a widget bound to a tkinter variable; no handler of the program runs
NoHandlerRuns ==
    /\ UNCHANGED <<current_password, password_visible, entry_show, status_var, timers,
                   handler, view_calls>>
    /\ UNCHANGED coreVars

ToggleUppercase ==
    /\ uppercase_var' = ~uppercase_var
    /\ UNCHANGED <<lowercase_var, digits_var, symbols_var, length_var>>
    /\ NoHandlerRuns

ToggleLowercase ==
    /\ lowercase_var' = ~lowercase_var
    /\ UNCHANGED <<uppercase_var, digits_var, symbols_var, length_var>>
    /\ NoHandlerRuns

ToggleDigits ==
    /\ digits_var' = ~digits_var
    /\ UNCHANGED <<uppercase_var, lowercase_var, symbols_var, length_var>>
    /\ NoHandlerRuns

ToggleSymbols ==
    /\ symbols_var' = ~symbols_var
    /\ UNCHANGED <<uppercase_var, lowercase_var, digits_var, length_var>>
    /\ NoHandlerRuns

SetLength ==
    /\ \E n \in ViewLengths \ {length_var} : length_var' = n
    /\ UNCHANGED <<uppercase_var, lowercase_var, digits_var, symbols_var>>
    /\ NoHandlerRuns

NextMVC ==
    \/ OnGenerateClicked \/ OnCopyClicked \/ OnToggleVisibility \/ StatusReset
    \/ ToggleUppercase \/ ToggleLowercase \/ ToggleDigits \/ ToggleSymbols
    \/ SetLength

SpecMVC == Init /\ [][NextMVC]_vars

(***************************************************************************)
(* Properties of the controller and the view (checked under SpecMVC).      *)
(***************************************************************************)
widgetVars == <<uppercase_var, lowercase_var, digits_var, symbols_var, length_var>>

\* the step is a run of handler h (editing a widget runs no handler)
HandlerStep(h) == handler' = h /\ UNCHANGED widgetVars

\* C8: on_generate turns each outcome of generate_password into exactly one
\* call of the view: display_password with the password returned, show_error
\* with the select-a-character-type text for the no-class error, show_error
\* with the length-between-8-and-64 text for the length error.
C8_OutcomeToViewCall ==
    [][HandlerStep("on_generate") =>
        \E st \in ViewStreams :
            LET r == GeneratePassword(GetSettings, st)
            IN  /\ Len(view_calls') = 1
                /\ CASE r.exc = "none" ->
                          /\ view_calls'[1] = ViewCall("display_password", r.password)
                          /\ current_password' = r.password
                     [] r.exc = "ValueError" /\ r.msg = MsgNoCharType ->
                          view_calls'[1] = ViewCall("show_error", TextSelectCharType)
                     [] r.exc = "ValueError" /\ r.msg = MsgLength ->
                          view_calls'[1] = ViewCall("show_error", TextLengthRange)
                     [] OTHER -> FALSE
    ]_vars

\* a length error has been shown with the length text
C8_Witness ==
    /\ handler = "on_generate"
    /\ length_var = MAX_LENGTH + 1
    /\ symbols_var
    /\ view_calls = <<ViewCall("show_error", TextLengthRange)>>

\* C9: a generation request that fails validation leaves current_password as
\* it was (empty or the password generated before), shows an error and does
\* not call display_password.
C9_FailedGenerateKeepsPassword ==
    [][(HandlerStep("on_generate") /\ ~ValidRequest(GetSettings)) =>
        /\ current_password' = current_password
        /\ entry_show' = entry_show
        /\ Len(view_calls') = 1
        /\ view_calls'[1].method = "show_error"
        /\ status_var' = TextError
    ]_vars

\* a failed request after a successful one: the earlier password is still there
C9_Witness ==
    /\ handler = "on_generate"
    /\ ~ValidRequest(GetSettings)
    /\ Len(view_calls) = 1
    /\ view_calls[1].method = "show_error"
    /\ Len(current_password) = 8

\* C10: copy_to_clipboard returns True when every clipboard step succeeds and
\* False when any of them fails, and never raises; on_copy answers with
\* show_success or show_error accordingly, never changes current_password and
\* never calls display_password.
C10_CopyIndependent ==
    [][HandlerStep("on_copy") =>
        /\ \A f \in 0..ClipboardSteps :
              /\ ~CopyToClipboard(f).raised
              /\ CopyToClipboard(f).ret = (f = 0)
        /\ current_password' = current_password
        /\ password_visible' = password_visible
        /\ view_calls' \in {<<ViewCall("show_success", TextCopied)>>,
                            <<ViewCall("show_error", TextCopyFailed)>>}
        /\ view_calls'[1].method = "show_success" => status_var' = TextCopied
        /\ view_calls'[1].method = "show_error" => status_var' = TextError
    ]_vars

\* a copy that failed, the password still in place
C10_Witness ==
    /\ handler = "on_copy"
    /\ view_calls = <<ViewCall("show_error", TextCopyFailed)>>
    /\ current_password # <<>>

\* a copy that succeeded
C10_WitnessCopied ==
    /\ handler = "on_copy"
    /\ view_calls = <<ViewCall("show_success", TextCopied)>>
    /\ timers = 1

\* C17: whatever the user clicks, current_password changes only when a
\* generation succeeds, and then to the password generated, so that it is
\* empty or the password of the latest successful generation; the copy button
\* reaches the controller's on_copy only with a non-empty password and shows
\* an error otherwise; the show/hide button changes password_visible only
\* when there is a password, and never changes current_password.
C17_ViewHandlers ==
    [][/\ current_password' # current_password =>
              (HandlerStep("on_generate") /\ ValidRequest(GetSettings))
       /\ (HandlerStep("on_generate") /\ ValidRequest(GetSettings)) =>
              \E st \in ViewStreams :
                  current_password' = GeneratePassword(GetSettings, st).password
       /\ HandlerStep("on_copy") =>
              (current_password # <<>> /\ current_password' = current_password)
       /\ HandlerStep("on_copy_clicked") =>
              /\ current_password = <<>>
              /\ current_password' = <<>>
              /\ view_calls' = <<ViewCall("show_error", TextNothingToCopy)>>
       /\ password_visible' # password_visible =>
              (HandlerStep("on_toggle_visibility") /\ current_password # <<>>)
       /\ HandlerStep("on_toggle_visibility") =>
              /\ current_password' = current_password
              /\ (password_visible' # password_visible) = (current_password # <<>>)
    ]_vars

\* the copy button pressed with nothing generated yet
C17_Witness ==
    /\ handler = "on_copy_clicked"
    /\ current_password = <<>>
    /\ ~password_visible
    /\ view_calls = <<ViewCall("show_error", TextNothingToCopy)>>

\* the show/hide button pressed with a password on display
C17_WitnessShown ==
    /\ handler = "on_toggle_visibility"
    /\ password_visible
    /\ entry_show = ""
    /\ Len(current_password) = 8

\* the show/hide button pressed with nothing generated yet
C17_WitnessNothingToShow ==
    /\ handler = "on_toggle_visibility"
    /\ current_password = <<>>
    /\ ~password_visible

====
